---------------------------- MODULE Spec2Model ----------------------------
(***************************************************************************)
(* A model of the Aura Cleaning landing page scripts:                      *)
(*   src/assets/js/calculator.js  the pricing calculator (Calculator)      *)
(*   src/unnamed/part_000         the page modules (Modal, MobileMenu ...) *)
(*                                                                         *)
(* JavaScript values are modelled as follows.  Numbers are integers, null  *)
(* is the record Null, strings are TLA+ strings built with \o (Cyrillic    *)
(* text is transliterated, the bullet is *, the rouble sign is RUB and the *)
(* no-break space is ~).  The value                                        *)
(* of an <input> element is a string of decimal digits, kept as a sequence *)
(* of one-character strings so that parseInt can be computed on it.        *)
(***************************************************************************)
EXTENDS Integers, Sequences, FiniteSets, TLC

VARIABLES
    call,              \* the last call of a Calculator pure function, with its result
    markup,            \* the ids of the optional elements the page's markup holds
    calcPhase,         \* "loading", then "listening" (init registered its listeners) or "idle"
    sliderValue,       \* #area-slider's value, a string of digits
    checkedFrequency,  \* the value of the checked input[name="frequency"]
    sliderBackground,  \* #area-slider's style.background, by its fill percentage
    display,           \* textContent of the calculator's display elements
    mainReady,         \* the page script's DOMContentLoaded handler has run
    modalActive,       \* #modal has the class active
    bodyOverflow,      \* document.body.style.overflow
    navActive,         \* .header__nav has the class active
    menuBtnActive,     \* .header__menu-btn has the class active
    formInDocument,    \* #lead-form is still in the document
    nameField,         \* the value of the form's name field
    phoneField,        \* the value of the form's phone field
    alertOpen,         \* a native alert dialog is blocking the page
    closeTimers,       \* pending 2500 ms callbacks of showSuccess
    reloadTimers,      \* pending 300 ms callbacks
    successShown,      \* how many times showSuccess replaced the form
    closeFired,        \* how many times the 2500 ms callback ran
    reloadFired,       \* how many times location.reload() ran
    pageMarkup,        \* which of the page script's elements the markup holds
    listeners,         \* the listeners the page script has registered
    initError,         \* what the DOMContentLoaded handler threw, if anything
    scrollY,           \* window.scrollY
    headerScrolled,    \* .header has the class header--scrolled
    items,             \* the .accordion__item elements, in document order
    itemActive,        \* the items with the class active
    maxHeight,         \* style.maxHeight of each item's .accordion__content
    itemHandlers,      \* the items whose header has the click listener
    fadeElements,      \* the .fade-in elements
    observed,          \* the elements the IntersectionObserver observes
    visible,           \* the .fade-in elements with the class visible
    reported,          \* what the observer last reported for each element
    queued             \* the observer's entries not yet given to the callback

pureVars == <<call>>
calcVars == <<markup, calcPhase, sliderValue, checkedFrequency, sliderBackground, display>>
pageVars == <<mainReady, modalActive, bodyOverflow, navActive, menuBtnActive,
              formInDocument, nameField, phoneField, alertOpen, closeTimers, reloadTimers,
              successShown, closeFired, reloadFired,
              pageMarkup, listeners, initError, scrollY, headerScrolled,
              items, itemActive, maxHeight, itemHandlers,
              fadeElements, observed, visible, reported, queued>>
markupVars == <<pageMarkup, listeners, initError>>
scrollVars == <<scrollY, headerScrolled>>
accordionVars == <<items, itemActive, maxHeight, itemHandlers>>
fadeVars == <<fadeElements, observed, visible, reported, queued>>
sceneVars == <<markupVars, scrollVars, accordionVars, fadeVars>>
vars == <<pureVars, calcVars, pageVars>>

-----------------------------------------------------------------------------
(* Bounds of the model. *)

\* How far below 50 and above 250 the pure functions are called.
Margin == 12

\* getMonthlyPrice is called with every price in 0..MaxSmallPrice, with null
\* and with every price of the price table.
MaxSmallPrice == 40

\* A guard on the number of successful submissions the model follows.
MaxSubmits == 2

\* The pages of the accordion model hold up to MaxItems .accordion__item
\* elements; the content of item i is PanelHeight * i pixels high.
MaxItems == 4
PanelHeight == 40

\* The pages of the fade-in model hold up to MaxFadeIn .fade-in elements, and the
\* observer queues up to MaxQueued entries before its callback runs.
MaxFadeIn == 3
MaxQueued == 2

\* The page's layout: the document offset of the section the anchors point to
\* and the height of the header.
SectionTop == 120
HeaderHeight == 70

-----------------------------------------------------------------------------
(* JavaScript values. *)

\* A value that is a number or null: Num(n) or Null.
Null == [t |-> "null", v |-> 0]

Num(n) == [t |-> "num", v |-> n]

\* !x for a number or null: null and 0 are falsy.
Falsy(x) == x.t = "null" \/ x.v = 0

\* !s for a string: only the empty string is falsy.
FalsyStr(s) == s = ""

DigitChars == <<"0", "1", "2", "3", "4", "5", "6", "7", "8", "9">>

DigitChar(d) == DigitChars[d + 1]

DigitValue(c) == CHOOSE d \in 0..9 : DigitChars[d + 1] = c

\* The decimal digits of a non-negative integer, most significant first.
RECURSIVE DigitSeq(_)
DigitSeq(n) == IF n < 10 THEN <<DigitChar(n)>>
               ELSE Append(DigitSeq(n \div 10), DigitChar(n % 10))

\* A sequence of one-character strings as one string.
RECURSIVE Concat(_)
Concat(s) == IF s = <<>> THEN "" ELSE Head(s) \o Concat(Tail(s))

\* String(n) for a non-negative integer.
NumberToString(n) == Concat(DigitSeq(n))

\* parseInt(s) for a string of decimal digits.
RECURSIVE parseIntFrom(_, _)
parseIntFrom(s, acc) ==
    IF s = <<>> THEN acc
    ELSE parseIntFrom(Tail(s), acc * 10 + DigitValue(Head(s)))

parseInt(s) == parseIntFrom(s, 0)

-----------------------------------------------------------------------------
(* Calculator: the tables. *)

SliderMin == 50
SliderMax == 250
VisitsPerMonth == 4

ZoneNames == <<"zone1", "zone2", "zone3">>

zones == [zone1 |-> [min |-> 50,  max |-> 90],
          zone2 |-> [min |-> 91,  max |-> 150],
          zone3 |-> [min |-> 151, max |-> 250]]

prices_weeklyTypo == [zone1 |-> [single |-> 9900,  weekly |-> 8400],
                      zone2 |-> [single |-> 14900, weekly |-> 12700],
                      zone3 |-> [single |-> 21900, weekly |-> 28600]]

prices == [zone1 |-> [single |-> 9900,  weekly |-> 8400],
           zone2 |-> [single |-> 14900, weekly |-> 12700],
           zone3 |-> [single |-> 21900, weekly |-> 18600]]

\* Object.entries(this.areaHints): integer-like keys come in ascending
\* numeric order, each key as a string of digits.
areaHints == << <<<<"5", "0">>,     "1-2 komnatnaya * Priedet 1 kliner">>,
                <<<<"7", "5">>,     "2-komnatnaya * Priedet 1 kliner">>,
                <<<<"9", "0">>,     "2-3 komnatnaya * Priedet 1 kliner">>,
                <<<<"1", "0", "0">>,"3-komnatnaya * Priedut 2 klinera">>,
                <<<<"1", "3", "0">>,"3-4 komnatnaya * Priedut 2 klinera">>,
                <<<<"1", "5", "0">>,"4-komnatnaya * Priedut 2 klinera">>,
                <<<<"1", "7", "0">>,"Bolshaya kvartira * Priedut 3 klinera">>,
                <<<<"2", "0", "0">>,"Penthaus * Priedut 3 klinera">> >>

frequencyLabels == [single |-> "razovaya", weekly |-> "regulyarno raz v nedelyu"]

Frequencies == {"single", "weekly"}

-----------------------------------------------------------------------------
(* Calculator: the pure functions. *)

getZone_strictBound(area) ==
    IF area < 90 THEN "zone1"
    ELSE IF area <= 150 THEN "zone2"
    ELSE "zone3"

getZone(area) ==
    IF area <= 90 THEN "zone1"
    ELSE IF area <= 150 THEN "zone2"
    ELSE "zone3"

getPrice(area, frequency) == prices[getZone(area)][frequency]

\* price is a number or null, and so is the result.
getMonthlyPrice_noGuard(price, frequency) ==
    IF frequency = "weekly" THEN Num(price.v * VisitsPerMonth)
    ELSE price

getMonthlyPrice(price, frequency) ==
    IF Falsy(price) THEN Null
    ELSE IF frequency = "weekly" THEN Num(price.v * VisitsPerMonth)
    ELSE price

getSavings_swapped(area, frequency) ==
    IF frequency = "single" THEN 0
    ELSE LET singlePrice == getPrice(area, "single")
             currentPrice == getPrice(area, frequency)
         IN  IF singlePrice = 0 \/ currentPrice = 0 THEN 0
             ELSE currentPrice - singlePrice

getSavings(area, frequency) ==
    IF frequency = "single" THEN 0
    ELSE LET singlePrice == getPrice(area, "single")
             currentPrice == getPrice(area, frequency)
         IN  IF singlePrice = 0 \/ currentPrice = 0 THEN 0
             ELSE singlePrice - currentPrice

\* The loop of getAreaHint from index i down to 1 (the code's i-1 down to 0).
RECURSIVE areaHintFrom_strict(_, _, _)
areaHintFrom_strict(hints, area, i) ==
    IF i < 1 THEN hints[1][2]
    ELSE IF area > parseInt(hints[i][1]) THEN hints[i][2]
    ELSE areaHintFrom_strict(hints, area, i - 1)

RECURSIVE areaHintFrom(_, _, _)
areaHintFrom(hints, area, i) ==
    IF i < 1 THEN hints[1][2]
    ELSE IF area >= parseInt(hints[i][1]) THEN hints[i][2]
    ELSE areaHintFrom(hints, area, i - 1)

getAreaHint_strict(area) == areaHintFrom_strict(areaHints, area, Len(areaHints))

getAreaHint(area) == areaHintFrom(areaHints, area, Len(areaHints))

\* Three digits, zero-padded: one group after a separator.
Pad3(m) == DigitChar(m \div 100) \o DigitChar((m \div 10) % 10) \o DigitChar(m % 10)

\* new Intl.NumberFormat('ru-RU').format(n) for a non-negative integer: the
\* digits in groups of three from the right, separated by a no-break space.
RECURSIVE GroupThousands(_)
GroupThousands(n) ==
    IF n < 1000 THEN NumberToString(n)
    ELSE GroupThousands(n \div 1000) \o "~" \o Pad3(n % 1000)

\* formatPrice with a guard for null only.
formatPrice_nullOnly(price) ==
    IF price = Null THEN "Po zaprosu"
    ELSE GroupThousands(price.v) \o "RUB"

\* price is a number or null.
formatPrice(price) ==
    IF Falsy(price) THEN "Po zaprosu"
    ELSE GroupThousands(price.v) \o "RUB"

-----------------------------------------------------------------------------
(* Calls of the pure functions, each recorded with its arguments and result. *)

AreaInputs == (SliderMin - Margin)..(SliderMax + Margin)

TablePrices == {prices[z][f] : z \in DOMAIN prices, f \in Frequencies}

PriceInputs == {Null} \cup {Num(n) : n \in (0..MaxSmallPrice) \cup TablePrices}

\* What formatPrice is given: the prices above, the monthly prices update shows,
\* and the first amounts with a thousands group.
FormatInputs ==
    PriceInputs
        \cup {Num(VisitsPerMonth * p) : p \in TablePrices}
        \cup {Num(1000 + n) : n \in 0..MaxSmallPrice}

NoCall == [fn |-> "none", args |-> <<>>, ret |-> Null]

CallGetZone ==
    /\ call = NoCall
    /\ \E area \in AreaInputs :
          call' = [fn |-> "getZone", args |-> <<area>>, ret |-> getZone(area)]
    /\ UNCHANGED <<calcVars, pageVars>>

CallGetPrice ==
    /\ call = NoCall
    /\ \E area \in AreaInputs, frequency \in Frequencies :
          call' = [fn |-> "getPrice", args |-> <<area, frequency>>,
                   ret |-> getPrice(area, frequency)]
    /\ UNCHANGED <<calcVars, pageVars>>

CallGetMonthlyPrice ==
    /\ call = NoCall
    /\ \E price \in PriceInputs, frequency \in Frequencies :
          call' = [fn |-> "getMonthlyPrice", args |-> <<price, frequency>>,
                   ret |-> getMonthlyPrice(price, frequency)]
    /\ UNCHANGED <<calcVars, pageVars>>

CallGetSavings ==
    /\ call = NoCall
    /\ \E area \in AreaInputs, frequency \in Frequencies :
          call' = [fn |-> "getSavings", args |-> <<area, frequency>>,
                   ret |-> getSavings(area, frequency)]
    /\ UNCHANGED <<calcVars, pageVars>>

CallGetAreaHint ==
    /\ call = NoCall
    /\ \E area \in AreaInputs :
          call' = [fn |-> "getAreaHint", args |-> <<area>>, ret |-> getAreaHint(area)]
    /\ UNCHANGED <<calcVars, pageVars>>

CallFormatPrice ==
    /\ call = NoCall
    /\ \E price \in FormatInputs :
          call' = [fn |-> "formatPrice", args |-> <<price>>, ret |-> formatPrice(price)]
    /\ UNCHANGED <<calcVars, pageVars>>

\* The caller has used the result.
Return ==
    /\ call # NoCall
    /\ call' = NoCall
    /\ UNCHANGED <<calcVars, pageVars>>

NextPure ==
    \/ Return
    \/ CallGetZone
    \/ CallGetPrice
    \/ CallGetMonthlyPrice
    \/ CallGetSavings
    \/ CallGetAreaHint
    \/ CallFormatPrice

-----------------------------------------------------------------------------
(* Calculator: the user interface. *)

\* The elements the code looks up and guards with `if (el)`.
OptionalIds == {"area-slider", "price-single", "price-weekly",
                "monthly-weekly", "saving-weekly"}

OptionIds == {"price-single", "price-weekly", "monthly-weekly", "saving-weekly"}

PrimaryIds == {"area-value", "area-hint", "result-summary", "result-price",
               "result-monthly"}

\* What an element shows before any script wrote to it.
MarkupText == "(markup)"

SliderValues == SliderMin..SliderMax

\* The inputs and outputs a handler of the calculator reads and writes.
CalcState == [slider |-> sliderValue, frequency |-> checkedFrequency,
              background |-> sliderBackground, text |-> display]

update_monthlyNotCleared(st) ==
    LET area == parseInt(st.slider)
        frequency == st.frequency
        percent == [num |-> (area - SliderMin) * 100, den |-> SliderMax - SliderMin]
        price == Num(getPrice(area, frequency))
        monthlyPrice == getMonthlyPrice(price, frequency)
    IN  [st EXCEPT
           !.background = percent,
           !.text = [st.text EXCEPT
              !["area-value"] = NumberToString(area),
              !["area-hint"] = getAreaHint(area),
              !["result-summary"] =
                  NumberToString(area) \o " kv.m, " \o frequencyLabels[frequency],
              !["result-price"] = formatPrice(price),
              !["result-monthly"] =
                  IF ~Falsy(price)
                  THEN formatPrice(monthlyPrice) \o " raz v mesyac"
                  ELSE "Svyazhites s nami dlya rascheta"]]

update(st) ==
    LET area == parseInt(st.slider)
        frequency == st.frequency
        percent == [num |-> (area - SliderMin) * 100, den |-> SliderMax - SliderMin]
        price == Num(getPrice(area, frequency))
        monthlyPrice == getMonthlyPrice(price, frequency)
    IN  [st EXCEPT
           !.background = percent,
           !.text = [st.text EXCEPT
              !["area-value"] = NumberToString(area),
              !["area-hint"] = getAreaHint(area),
              !["result-summary"] =
                  NumberToString(area) \o " kv.m, " \o frequencyLabels[frequency],
              !["result-price"] = formatPrice(price),
              !["result-monthly"] =
                  IF frequency = "single" THEN ""
                  ELSE IF ~Falsy(price)
                  THEN formatPrice(monthlyPrice) \o " raz v mesyac"
                  ELSE "Svyazhites s nami dlya rascheta"]]

updateOptionPrices_checkedFrequency(st) ==
    LET area == parseInt(st.slider)
        singlePrice == getPrice(area, "single")
        weeklyPrice == getPrice(area, st.frequency)
        saving == getSavings(area, "weekly")
    IN  [st EXCEPT
           !.text = [id \in DOMAIN st.text |->
              IF id \notin markup THEN st.text[id]
              ELSE IF id = "price-single" THEN formatPrice(Num(singlePrice))
              ELSE IF id = "price-weekly" THEN formatPrice(Num(weeklyPrice))
              ELSE IF id = "monthly-weekly" /\ weeklyPrice # 0
                 THEN "(" \o formatPrice(Num(weeklyPrice * 4)) \o " raz v mesyac)"
              ELSE IF id = "saving-weekly"
                 THEN IF saving > 0
                      THEN "$ Ekonomiya " \o formatPrice(Num(saving)) \o " na kazhdoy"
                      ELSE ""
              ELSE st.text[id]]]

\* updateOptionPrices writing the single price into update's #result-price too.
updateOptionPrices_writesResult(st) ==
    LET shown == updateOptionPrices_checkedFrequency([st EXCEPT !.frequency = "weekly"])
    IN  [shown EXCEPT
           !.frequency = st.frequency,
           !.text["result-price"] =
               formatPrice(Num(getPrice(parseInt(st.slider), "single")))]

updateOptionPrices(st) ==
    LET area == parseInt(st.slider)
        singlePrice == getPrice(area, "single")
        weeklyPrice == getPrice(area, "weekly")
        saving == getSavings(area, "weekly")
    IN  [st EXCEPT
           !.text = [id \in DOMAIN st.text |->
              IF id \notin markup THEN st.text[id]
              ELSE IF id = "price-single" THEN formatPrice(Num(singlePrice))
              ELSE IF id = "price-weekly" THEN formatPrice(Num(weeklyPrice))
              ELSE IF id = "monthly-weekly" /\ weeklyPrice # 0
                 THEN "(" \o formatPrice(Num(weeklyPrice * 4)) \o " raz v mesyac)"
              ELSE IF id = "saving-weekly"
                 THEN IF saving > 0
                      THEN "$ Ekonomiya " \o formatPrice(Num(saving)) \o " na kazhdoy"
                      ELSE ""
              ELSE st.text[id]]]

\* The handlers' writes become the new state of the page.
Render(st) ==
    /\ sliderBackground' = st.background
    /\ display' = st.text

\* Calculator.init without the return for a missing slider.
CalculatorInit_noGuard ==
    /\ calcPhase = "loading"
    /\ calcPhase' = "listening"
    /\ Render(updateOptionPrices(update(CalcState)))
    /\ UNCHANGED <<markup, sliderValue, checkedFrequency, call, pageVars>>

\* Calculator.init, run once by the script's DOMContentLoaded listener.
CalculatorInit ==
    /\ calcPhase = "loading"
    /\ IF "area-slider" \notin markup
       THEN /\ calcPhase' = "idle"
            /\ UNCHANGED <<sliderBackground, display>>
       ELSE /\ calcPhase' = "listening"
            /\ Render(updateOptionPrices(update(CalcState)))
    /\ UNCHANGED <<markup, sliderValue, checkedFrequency, call, pageVars>>

\* The user moves the slider to v: the input event runs the slider's two
\* listeners in the order init registered them.
SliderInput ==
    /\ "area-slider" \in markup
    /\ \E v \in SliderValues :
          /\ sliderValue' = DigitSeq(v)
          /\ IF calcPhase = "listening"
             THEN Render(updateOptionPrices(update(
                      [CalcState EXCEPT !.slider = DigitSeq(v)])))
             ELSE UNCHANGED <<sliderBackground, display>>
    /\ UNCHANGED <<markup, calcPhase, checkedFrequency, call, pageVars>>

\* The user checks the other radio: its change event runs update.
RadioChange ==
    /\ \E f \in Frequencies \ {checkedFrequency} :
          /\ checkedFrequency' = f
          /\ IF calcPhase = "listening"
             THEN Render(update([CalcState EXCEPT !.frequency = f]))
             ELSE UNCHANGED <<sliderBackground, display>>
    /\ UNCHANGED <<markup, calcPhase, sliderValue, call, pageVars>>

NextCalc ==
    \/ CalculatorInit
    \/ SliderInput
    \/ RadioChange

-----------------------------------------------------------------------------
(* The page script: Modal and MobileMenu.  The page holds #modal, #lead-form,  *)
(* .header__menu-btn and .header__nav.  The browser runs one handler at a      *)
(* time; an open alert dialog blocks every handler and timer, and after        *)
(* location.reload() the document and its handlers are gone.                   *)

\* What the user can type into a field of the form.
NameValues == {"", " ", "Anna"}
PhoneValues == {"", " ", "+79001234567"}

Keys == {"Escape", "Enter"}

\* Handlers and timers can run.
Running == mainReady /\ ~alertOpen /\ reloadFired = 0

\* The classes and the style the handlers of the two modules read and write.
PageDom == [modal |-> modalActive, overflow |-> bodyOverflow,
            nav |-> navActive, btn |-> menuBtnActive]

Apply(d) ==
    /\ modalActive' = d.modal
    /\ bodyOverflow' = d.overflow
    /\ navActive' = d.nav
    /\ menuBtnActive' = d.btn

\* Modal.open
open(d) == [d EXCEPT !.modal = TRUE, !.overflow = "hidden"]

\* Modal.close without the reset of the body's overflow.
close_keepsOverflow(d) == [d EXCEPT !.modal = FALSE]

\* Modal.close
close(d) == [d EXCEPT !.modal = FALSE, !.overflow = ""]

\* The click listener of .header__menu-btn.
menuBtnClick(d) ==
    LET toggled == [d EXCEPT !.nav = ~d.nav, !.btn = ~d.btn]
    IN  [toggled EXCEPT !.overflow = IF toggled.nav THEN "hidden" ELSE ""]

\* The link listener that forgets the hamburger's class.
navLinkClick_navOnly(d) == [d EXCEPT !.nav = FALSE, !.overflow = ""]

\* The click listener of a .header__nav-link.
navLinkClick(d) == [d EXCEPT !.nav = FALSE, !.btn = FALSE, !.overflow = ""]

-----------------------------------------------------------------------------
(* The page script: Header, Accordion, SmoothScroll, Animations, and what each *)
(* init registers.  pageMarkup says which of the elements the inits look up    *)
(* are on the page; triggers, anchors and navigation links are there whenever  *)
(* an event on them is.                                                        *)

PageElements == {"header", "modal", "lead-form", "menu-btn", "nav"}

\* Header.scrollThreshold
scrollThreshold == 50

\* Header.onScroll: whether .header has header--scrolled afterwards.
onScroll(y) == y > scrollThreshold

\* Header.init
HeaderListeners == IF "header" \notin pageMarkup THEN {} ELSE {"scroll"}

\* Modal.init
ModalListeners ==
    IF "modal" \notin pageMarkup THEN {}
    ELSE {"open-trigger", "close-trigger", "backdrop", "keydown"}
            \cup (IF "lead-form" \in pageMarkup THEN {"submit"} ELSE {})

\* SmoothScroll.init
SmoothScrollListeners == {"anchor"}

\* MobileMenu.init reads nav.querySelectorAll before it tests nav: with no
\* .header__nav on the page nav is null and the read throws a TypeError.
MobileMenuThrows == "nav" \notin pageMarkup

MobileMenuListeners ==
    IF MobileMenuThrows THEN {}
    ELSE IF "menu-btn" \notin pageMarkup THEN {}
    ELSE {"menu-btn", "nav-link"}

\* The href of an anchor: "#", the id of a section on the page, or an id no
\* element has.
Hrefs == {"#", "#section", "#missing"}

\* targetPosition in SmoothScroll's click listener.
targetPosition ==
    SectionTop - (IF "header" \in pageMarkup THEN HeaderHeight ELSE 0)

\* Where the window is after SmoothScroll's click listener, from scroll
\* position y: the listener returns for "#" and for a missing target.
smoothScroll(y, href) ==
    IF href = "#" THEN y
    ELSE IF href = "#missing" THEN y
    ELSE targetPosition

\* The positions the user scrolls to.
ScrollPositions == {0, scrollThreshold, scrollThreshold + 1, targetPosition}

\* The window is at y; the scroll event runs Header's listener, if registered.
ScrollTo(y) ==
    /\ scrollY' = y
    /\ headerScrolled' =
          IF y # scrollY /\ "scroll" \in listeners THEN onScroll(y) ELSE headerScrolled

\* An item of an accordion: the .accordion it is in, if any, and whether it
\* holds an .accordion__header and an .accordion__content.
Groups == {"faq", "checklist"}
NoGroup == "none"
ItemKinds == [group : Groups \cup {NoGroup}, header : BOOLEAN, content : BOOLEAN]

\* content.scrollHeight + 'px' for the content of item i.
ScrollHeightPx(i) == NumberToString(PanelHeight * i) \o "px"

\* The classes and styles Accordion reads and writes.
AccordionDom == [active |-> itemActive, maxHeight |-> maxHeight]

\* The click listener of an item's header without the closing of its group.
headerClick_noClose(acc, i) ==
    IF i \notin acc.active
    THEN [active |-> acc.active \cup {i},
          maxHeight |-> [acc.maxHeight EXCEPT ![i] = ScrollHeightPx(i)]]
    ELSE acc

\* The click listener of the header of item i.
headerClick(acc, i) ==
    LET isActive == i \in acc.active
        parent == items[i].group
        inParent == {j \in DOMAIN items : items[j].group = parent}
        closed ==
            IF parent # NoGroup
            THEN [active |-> acc.active \ inParent,
                  maxHeight |-> [j \in DOMAIN items |->
                      IF j \in inParent /\ items[j].content THEN ""
                      ELSE acc.maxHeight[j]]]
            ELSE acc
    IN  IF ~isActive
        THEN [active |-> closed.active \cup {i},
              maxHeight |-> [closed.maxHeight EXCEPT ![i] = ScrollHeightPx(i)]]
        ELSE closed

\* Accordion.init, lines 76-84: the first item of the page is opened.
openFirst(acc) ==
    IF items = <<>> THEN acc
    ELSE [active |-> acc.active \cup {1},
          maxHeight |-> IF items[1].content
                        THEN [acc.maxHeight EXCEPT ![1] = ScrollHeightPx(1)]
                        ELSE acc.maxHeight]

\* The items whose header gets the click listener.
AccordionHandlers == {i \in DOMAIN items : items[i].header /\ items[i].content}

\* What Animations reads and writes.
FadeDom == [observed |-> observed, visible |-> visible]

\* The observer's callback that keeps observing what it has shown.
intersectionCallback_keepsObserving(fd, entries) ==
    [fd EXCEPT !.visible =
        fd.visible \cup {entries[k].target : k \in
                            {n \in DOMAIN entries : entries[n].isIntersecting}}]

\* The IntersectionObserver's callback, given the entries in order.
RECURSIVE intersectionCallback(_, _)
intersectionCallback(fd, entries) ==
    IF entries = <<>> THEN fd
    ELSE LET entry == Head(entries)
         IN  intersectionCallback(
                 IF entry.isIntersecting
                 THEN [observed |-> fd.observed \ {entry.target},
                       visible |-> fd.visible \cup {entry.target}]
                 ELSE fd,
                 Tail(entries))

\* The DOMContentLoaded listener of the page script: the six inits in order.
\* Only the last one can throw, so the others have run when it does.
MainInit ==
    /\ ~mainReady
    /\ mainReady' = TRUE
    /\ listeners' = HeaderListeners \cup ModalListeners \cup SmoothScrollListeners
                        \cup MobileMenuListeners
    /\ initError' = IF MobileMenuThrows THEN "TypeError" ELSE "none"
    /\ headerScrolled' =
          IF "header" \in pageMarkup THEN onScroll(scrollY) ELSE headerScrolled
    /\ itemHandlers' = AccordionHandlers
    /\ itemActive' = openFirst(AccordionDom).active
    /\ maxHeight' = openFirst(AccordionDom).maxHeight
    /\ observed' = fadeElements
    /\ UNCHANGED <<modalActive, bodyOverflow, navActive, menuBtnActive,
                   formInDocument, nameField, phoneField, alertOpen, closeTimers,
                   reloadTimers, successShown, closeFired, reloadFired>>
    /\ UNCHANGED <<pageMarkup, scrollY, items, fadeElements, visible, reported, queued>>
    /\ UNCHANGED <<pureVars, calcVars>>

formAndTimers == <<formInDocument, nameField, phoneField, alertOpen, closeTimers,
                   reloadTimers, successShown, closeFired, reloadFired>>

\* A click on an element with data-modal-open that is neither a navigation
\* link nor an anchor to a section.
OpenTriggerClick ==
    /\ Running
    /\ "open-trigger" \in listeners
    /\ Apply(open(PageDom))
    /\ UNCHANGED <<mainReady, formAndTimers, pureVars, calcVars, sceneVars>>

\* A click on an element with data-modal-close.
CloseTriggerClick ==
    /\ Running
    /\ "close-trigger" \in listeners
    /\ Apply(close(PageDom))
    /\ UNCHANGED <<mainReady, formAndTimers, pureVars, calcVars, sceneVars>>

\* A click inside #modal: on the backdrop (the modal element itself) or on
\* something in it.
ModalClick ==
    /\ Running
    /\ "backdrop" \in listeners
    /\ \E onBackdrop \in BOOLEAN :
          IF onBackdrop THEN Apply(close(PageDom))
          ELSE UNCHANGED <<modalActive, bodyOverflow, navActive, menuBtnActive>>
    /\ UNCHANGED <<mainReady, formAndTimers, pureVars, calcVars, sceneVars>>

\* A key press anywhere in the document.
KeyDown ==
    /\ Running
    /\ "keydown" \in listeners
    /\ \E key \in Keys :
          IF key = "Escape" /\ modalActive THEN Apply(close(PageDom))
          ELSE UNCHANGED <<modalActive, bodyOverflow, navActive, menuBtnActive>>
    /\ UNCHANGED <<mainReady, formAndTimers, pureVars, calcVars, sceneVars>>

\* A click on the hamburger button.
MenuBtnClick ==
    /\ Running
    /\ "menu-btn" \in listeners
    /\ Apply(menuBtnClick(PageDom))
    /\ UNCHANGED <<mainReady, formAndTimers, pureVars, calcVars, sceneVars>>

\* A click on a navigation link.  Its listeners run in the order they were
\* registered: Modal.init's when the link carries data-modal-open, then
\* SmoothScroll.init's when its href starts with #, then MobileMenu.init's.
\* Modal's listener prevents the browser's default, which for "#" is the jump
\* to the top of the page.
NavLinkClick ==
    /\ Running
    /\ "nav-link" \in listeners
    /\ \E isOpenTrigger \in BOOLEAN, href \in Hrefs :
          LET opens == isOpenTrigger /\ "open-trigger" \in listeners
          IN  /\ Apply(navLinkClick(IF opens THEN open(PageDom) ELSE PageDom))
              /\ ScrollTo(IF href = "#" /\ ~opens THEN 0
                          ELSE smoothScroll(scrollY, href))
    /\ UNCHANGED <<mainReady, formAndTimers, pureVars, calcVars,
                   markupVars, accordionVars, fadeVars>>

\* The user edits a field of the form.
TypeName ==
    /\ formInDocument /\ ~alertOpen /\ reloadFired = 0
    /\ \E v \in NameValues \ {nameField} : nameField' = v
    /\ UNCHANGED <<mainReady, modalActive, bodyOverflow, navActive, menuBtnActive,
                   formInDocument, phoneField, alertOpen, closeTimers, reloadTimers,
                   successShown, closeFired, reloadFired, pureVars, calcVars, sceneVars>>

TypePhone ==
    /\ formInDocument /\ ~alertOpen /\ reloadFired = 0
    /\ \E v \in PhoneValues \ {phoneField} : phoneField' = v
    /\ UNCHANGED <<mainReady, modalActive, bodyOverflow, navActive, menuBtnActive,
                   formInDocument, nameField, alertOpen, closeTimers, reloadTimers,
                   successShown, closeFired, reloadFired, pureVars, calcVars, sceneVars>>

\* Object.fromEntries(new FormData(this.form).entries())
FormData == [name |-> nameField, phone |-> phoneField]

showSuccess_unnestedTimers ==
    /\ formInDocument' = FALSE
    /\ successShown' = successShown + 1
    /\ closeTimers' = closeTimers + 1
    /\ reloadTimers' = reloadTimers + 1

\* Modal.showSuccess: the form's parent gets the success message as its
\* content, which takes the form out of the document, and the 2500 ms timer
\* is set.
showSuccess ==
    /\ formInDocument' = FALSE
    /\ successShown' = successShown + 1
    /\ closeTimers' = closeTimers + 1
    /\ UNCHANGED reloadTimers

handleSubmit_bothBlank ==
    LET data == FormData
    IN  IF FalsyStr(data.name) /\ FalsyStr(data.phone)
        THEN /\ alertOpen' = TRUE
             /\ UNCHANGED <<formInDocument, successShown, closeTimers, reloadTimers>>
        ELSE /\ showSuccess
             /\ UNCHANGED alertOpen

\* Modal.handleSubmit
handleSubmit ==
    LET data == FormData
    IN  IF FalsyStr(data.name) \/ FalsyStr(data.phone)
        THEN /\ alertOpen' = TRUE
             /\ UNCHANGED <<formInDocument, successShown, closeTimers, reloadTimers>>
        ELSE /\ showSuccess
             /\ UNCHANGED alertOpen

\* The submit event of #lead-form, which only a form in the document gets.
SubmitForm ==
    /\ Running
    /\ "submit" \in listeners
    /\ formInDocument
    /\ successShown < MaxSubmits
    /\ handleSubmit
    /\ UNCHANGED <<mainReady, modalActive, bodyOverflow, navActive, menuBtnActive,
                   nameField, phoneField, closeFired, reloadFired, pureVars, calcVars, sceneVars>>

\* The user dismisses the alert dialog; handleSubmit returns.
DismissAlert ==
    /\ alertOpen
    /\ alertOpen' = FALSE
    /\ UNCHANGED <<mainReady, modalActive, bodyOverflow, navActive, menuBtnActive,
                   formInDocument, nameField, phoneField, closeTimers, reloadTimers,
                   successShown, closeFired, reloadFired, pureVars, calcVars, sceneVars>>

\* The 2500 ms callback of showSuccess: close the modal, set the 300 ms timer.
CloseTimerFires ==
    /\ Running
    /\ closeTimers > 0
    /\ closeTimers' = closeTimers - 1
    /\ closeFired' = closeFired + 1
    /\ Apply(close(PageDom))
    /\ reloadTimers' = reloadTimers + 1
    /\ UNCHANGED <<mainReady, formInDocument, nameField, phoneField, alertOpen,
                   successShown, reloadFired, pureVars, calcVars, sceneVars>>

\* The 300 ms callback: location.reload().
ReloadTimerFires ==
    /\ Running
    /\ reloadTimers > 0
    /\ reloadTimers' = reloadTimers - 1
    /\ reloadFired' = reloadFired + 1
    /\ UNCHANGED <<mainReady, modalActive, bodyOverflow, navActive, menuBtnActive,
                   formInDocument, nameField, phoneField, alertOpen, closeTimers,
                   successShown, closeFired, pureVars, calcVars, sceneVars>>

\* The user scrolls the page.
Scroll ==
    /\ ~alertOpen /\ reloadFired = 0
    /\ \E y \in ScrollPositions \ {scrollY} : ScrollTo(y)
    /\ UNCHANGED <<mainReady, modalActive, bodyOverflow, navActive, menuBtnActive,
                   formAndTimers, pureVars, calcVars,
                   markupVars, accordionVars, fadeVars>>

\* A click on an a[href^="#"] that is neither a navigation link nor a trigger
\* of the modal: SmoothScroll's listener, or the browser's jump to the top for
\* "#".
AnchorClick ==
    /\ Running
    /\ "anchor" \in listeners
    /\ \E href \in Hrefs :
          ScrollTo(IF href = "#" THEN 0 ELSE smoothScroll(scrollY, href))
    /\ UNCHANGED <<mainReady, modalActive, bodyOverflow, navActive, menuBtnActive,
                   formAndTimers, pureVars, calcVars,
                   markupVars, accordionVars, fadeVars>>

\* A click on the header of an accordion item.
AccordionHeaderClick ==
    /\ Running
    /\ \E i \in itemHandlers :
          /\ itemActive' = headerClick(AccordionDom, i).active
          /\ maxHeight' = headerClick(AccordionDom, i).maxHeight
    /\ UNCHANGED <<mainReady, modalActive, bodyOverflow, navActive, menuBtnActive,
                   formAndTimers, pureVars, calcVars,
                   markupVars, scrollVars, items, itemHandlers, fadeVars>>

\* The browser finds that an observed element has crossed the observer's
\* threshold, or looks at it for the first time, and queues an entry.
QueueEntry ==
    /\ Running
    /\ Len(queued) < MaxQueued
    /\ \E el \in observed, status \in {"in", "out"} :
          /\ reported[el] # status
          /\ reported' = [reported EXCEPT ![el] = status]
          /\ queued' = Append(queued, [target |-> el, isIntersecting |-> status = "in"])
    /\ UNCHANGED <<mainReady, modalActive, bodyOverflow, navActive, menuBtnActive,
                   formAndTimers, pureVars, calcVars,
                   markupVars, scrollVars, accordionVars,
                   fadeElements, observed, visible>>

\* The browser gives the queued entries to the observer's callback.
ObserverCallback ==
    /\ Running
    /\ queued # <<>>
    /\ observed' = intersectionCallback(FadeDom, queued).observed
    /\ visible' = intersectionCallback(FadeDom, queued).visible
    /\ queued' = <<>>
    /\ UNCHANGED <<mainReady, modalActive, bodyOverflow, navActive, menuBtnActive,
                   formAndTimers, pureVars, calcVars,
                   markupVars, scrollVars, accordionVars,
                   fadeElements, reported>>

NextPage ==
    \/ MainInit
    \/ OpenTriggerClick
    \/ CloseTriggerClick
    \/ ModalClick
    \/ KeyDown
    \/ MenuBtnClick
    \/ NavLinkClick
    \/ TypeName
    \/ TypePhone
    \/ SubmitForm
    \/ DismissAlert
    \/ CloseTimerFires
    \/ ReloadTimerFires

NextAccordion ==
    \/ MainInit
    \/ AccordionHeaderClick

NextFade ==
    \/ MainInit
    \/ QueueEntry
    \/ ObserverCallback

NextMarkup ==
    \/ MainInit
    \/ Scroll
    \/ AnchorClick

-----------------------------------------------------------------------------
(* The initial state: the page as its markup gives it, before any script ran. *)

InitPure == call = NoCall

\* The calculator's part of the page: one of the given sets of optional elements,
\* the slider (when present) at one of the given values, one radio checked.
CalcPage(markups, values, frequencies) ==
    /\ markup \in markups
    /\ calcPhase = "loading"
    /\ sliderValue \in IF "area-slider" \in markup
                       THEN {DigitSeq(v) : v \in values}
                       ELSE {<<>>}
    /\ checkedFrequency \in frequencies
    /\ sliderBackground = [num |-> 0, den |-> 0]
    /\ display = [id \in PrimaryIds \cup OptionIds |-> MarkupText]

\* The pages the model starts from: every optional element present, the slider
\* without the option readouts, and the readouts without the slider.
MarkupChoices == {OptionalIds, {"area-slider"}, OptionIds}

InitCalc == CalcPage(MarkupChoices, SliderValues, Frequencies)

\* One page, for the specifications that leave the calculator alone.
InitCalcAtRest == CalcPage({OptionalIds}, {SliderMin}, {"single"})

\* The page script's part of the page: one of the given sets of elements, one
\* of the given accordions, .fade-in elements as many as one of the given
\* counts, the window at one of the given positions.  No element has a class
\* or a style a script adds.
ScenePage(markups, layouts, fadeCounts, positions) ==
    /\ pageMarkup \in markups
    /\ listeners = {}
    /\ initError = "none"
    /\ scrollY \in positions
    /\ headerScrolled = FALSE
    /\ items \in layouts
    /\ itemActive = {}
    /\ maxHeight = [i \in DOMAIN items |-> ""]
    /\ itemHandlers = {}
    /\ fadeElements \in {1..n : n \in fadeCounts}
    /\ observed = {}
    /\ visible = {}
    /\ reported = [el \in fadeElements |-> "none"]
    /\ queued = <<>>

Panel(group) == [group |-> group, header |-> TRUE, content |-> TRUE]

\* One page, for the specifications that leave these modules alone: every
\* element, an FAQ of three panels, one .fade-in element, the window at the top.
InitSceneAtRest ==
    ScenePage({PageElements}, {<<Panel("faq"), Panel("faq"), Panel("faq")>>}, {1}, {0})

\* The accordions of the accordion model: MaxItems items, each in one of two
\* groups or in none, or in the first group without a header.
AccordionItemKinds ==
    {Panel(g) : g \in Groups \cup {NoGroup}}
        \cup {[group |-> "faq", header |-> FALSE, content |-> TRUE]}

InitAccordion ==
    ScenePage({PageElements}, [1..MaxItems -> AccordionItemKinds], {1}, {0})

InitFade ==
    ScenePage({PageElements}, {<<Panel("faq")>>}, 0..MaxFadeIn, {0})

\* The pages of the markup model: any of the looked-up elements missing, no
\* accordion item or one of any kind, .fade-in elements or none.
InitMarkup ==
    ScenePage(SUBSET PageElements,
              {<<>>} \cup {<<k>> : k \in ItemKinds},
              {0, 1},
              {0, scrollThreshold + 1})

InitPage ==
    /\ mainReady = FALSE
    /\ modalActive = FALSE
    /\ bodyOverflow = ""
    /\ navActive = FALSE
    /\ menuBtnActive = FALSE
    /\ formInDocument = ("lead-form" \in pageMarkup)
    /\ nameField = ""
    /\ phoneField = ""
    /\ alertOpen = FALSE
    /\ closeTimers = 0
    /\ reloadTimers = 0
    /\ successShown = 0
    /\ closeFired = 0
    /\ reloadFired = 0

InitForPure == InitPure /\ InitCalcAtRest /\ InitSceneAtRest /\ InitPage

InitForCalc == InitPure /\ InitCalc /\ InitSceneAtRest /\ InitPage

InitForPage == InitPure /\ InitCalcAtRest /\ InitSceneAtRest /\ InitPage

InitForAccordion == InitPure /\ InitCalcAtRest /\ InitAccordion /\ InitPage

InitForFade == InitPure /\ InitCalcAtRest /\ InitFade /\ InitPage

InitForMarkup == InitPure /\ InitCalcAtRest /\ InitMarkup /\ InitPage

SpecPure == InitForPure /\ [][NextPure]_vars

SpecCalc == InitForCalc /\ [][NextCalc]_vars

SpecPage == InitForPage /\ [][NextPage]_vars

SpecAccordion == InitForAccordion /\ [][NextAccordion]_vars

SpecFade == InitForFade /\ [][NextFade]_vars

SpecMarkup == InitForMarkup /\ [][NextMarkup]_vars

\* A timer that is set fires: the browser runs every pending callback.
SpecPageFair ==
    /\ InitForPage
    /\ [][NextPage]_vars
    /\ WF_vars(CloseTimerFires)
    /\ WF_vars(ReloadTimerFires)

-----------------------------------------------------------------------------
(* Properties of the pure functions, checked under SpecPure. *)

SupportedAreas == SliderMin..SliderMax

\* The zones of the table whose [min, max] range contains area.
ZonesContaining(area) ==
    {z \in DOMAIN zones : zones[z].min <= area /\ area <= zones[z].max}

\* C1: for every integer area in [50,250], getZone(area) is zone1 on [50,90],
\* zone2 on [91,150] and zone3 on [151,250], and it is the one zone of the
\* zones table whose range contains area.
C1_ZoneIsTheTableZone ==
    (call.fn = "getZone" /\ call.args[1] \in SupportedAreas) =>
        LET area == call.args[1]
        IN  /\ (50 <= area /\ area <= 90) => call.ret = "zone1"
            /\ (91 <= area /\ area <= 150) => call.ret = "zone2"
            /\ (151 <= area /\ area <= 250) => call.ret = "zone3"
            /\ ZonesContaining(area) = {call.ret}

C1_Witness ==
    /\ call.fn = "getZone"
    /\ call.args[1] = 91
    /\ call.ret = "zone2"

\* C2: for every integer area in [50,250], the weekly price is at most the
\* single price.
C2_WeeklyAtMostSingle ==
    (call.fn = "getPrice" /\ call.args[1] \in SupportedAreas
        /\ call.args[2] = "weekly") =>
        /\ call.ret <= getPrice(call.args[1], "single")
        /\ \A z \in ZonesContaining(call.args[1]) : call.ret <= prices[z].single

C2_Witness ==
    /\ call.fn = "getPrice"
    /\ call.args = <<151, "weekly">>
    /\ call.ret = 18600

\* C3: for every integer area in [50,250], getSavings(area,'single') is 0 and
\* getSavings(area,'weekly') is the single price minus the weekly price, which
\* is never negative.
C3_SavingsIsTheDiscount ==
    (call.fn = "getSavings" /\ call.args[1] \in SupportedAreas) =>
        LET area == call.args[1]
        IN  /\ call.args[2] = "single" => call.ret = 0
            /\ call.args[2] = "weekly" =>
                  /\ call.ret = getPrice(area, "single") - getPrice(area, "weekly")
                  /\ call.ret >= 0

C3_Witness ==
    /\ call.fn = "getSavings"
    /\ call.args = <<100, "weekly">>
    /\ call.ret = 2200

\* C4: getMonthlyPrice(price,'weekly') is price * 4 and
\* getMonthlyPrice(price,'single') is price for every positive integer price,
\* and the result is null for both frequencies when price is 0 or null.
C4_MonthlyPrice ==
    call.fn = "getMonthlyPrice" =>
        LET price == call.args[1]
            frequency == call.args[2]
        IN  /\ (price.t = "num" /\ price.v > 0 /\ frequency = "weekly") =>
                  call.ret = Num(price.v * 4)
            /\ (price.t = "num" /\ price.v > 0 /\ frequency = "single") =>
                  call.ret = Num(price.v)
            /\ (price = Null \/ price = Num(0)) => call.ret = Null

C4_Witness ==
    /\ call.fn = "getMonthlyPrice"
    /\ call.args = <<Num(12700), "weekly">>
    /\ call.ret = Num(50800)

HintKeys == {parseInt(areaHints[i][1]) : i \in DOMAIN areaHints}

HintLabel(key) ==
    areaHints[CHOOSE i \in DOMAIN areaHints : parseInt(areaHints[i][1]) = key][2]

\* The label of the greatest key that is <= area, or of the smallest key when
\* area is below every key.
ExpectedHint(area) ==
    LET below == {k \in HintKeys : k <= area}
    IN  IF below = {}
        THEN HintLabel(CHOOSE k \in HintKeys : \A j \in HintKeys : k <= j)
        ELSE HintLabel(CHOOSE k \in below : \A j \in below : j <= k)

\* C5: for every integer area, getAreaHint(area) is the label of the greatest
\* key of the areaHints table that is <= area, and the label of the smallest
\* key (50) when area is below every key; the hints of 49 and 50 are the 50-key
\* label and the hints of 200 and 201 are the 200-key label.
C5_HintOfGreatestKeyBelow ==
    call.fn = "getAreaHint" =>
        LET area == call.args[1]
        IN  /\ HintKeys = {50, 75, 90, 100, 130, 150, 170, 200}
            /\ call.ret = ExpectedHint(area)
            /\ area \in {49, 50} => call.ret = HintLabel(50)
            /\ area \in {200, 201} => call.ret = HintLabel(200)

C5_Witness ==
    /\ call.fn = "getAreaHint"
    /\ call.args[1] = 49
    /\ call.ret = "1-2 komnatnaya * Priedet 1 kliner"

-----------------------------------------------------------------------------
(* Properties of the calculator's user interface, checked under SpecCalc. *)

\* C6: once the calculator listens, after any sequence of slider input and
\* radio change events the primary result matches the current inputs: the
\* summary names the area and the checked frequency's label, the result price
\* shows getPrice(area, frequency), and the monthly line is empty for single
\* and shows 4 * getPrice(area,'weekly') for weekly (slider 100 and weekly:
\* price 12700, monthly 50800).
C6_PrimaryResultMatchesInputs ==
    calcPhase = "listening" =>
        LET area == parseInt(sliderValue)
            frequency == checkedFrequency
        IN  /\ display["result-summary"] =
                  NumberToString(area) \o " kv.m, " \o frequencyLabels[frequency]
            /\ display["result-price"] = formatPrice(Num(getPrice(area, frequency)))
            /\ frequency = "single" => display["result-monthly"] = ""
            /\ frequency = "weekly" =>
                  display["result-monthly"] =
                      formatPrice(Num(4 * getPrice(area, "weekly"))) \o " raz v mesyac"
            /\ (area = 100 /\ frequency = "weekly") =>
                  /\ display["result-summary"] = "100 kv.m, regulyarno raz v nedelyu"
                  /\ display["result-price"] = "12~700RUB"
                  /\ display["result-monthly"] = "50~800RUB raz v mesyac"

C6_Witness ==
    /\ calcPhase = "listening"
    /\ sliderValue = <<"1", "0", "0">>
    /\ checkedFrequency = "weekly"
    /\ display["result-summary"] = "100 kv.m, regulyarno raz v nedelyu"
    /\ display["result-monthly"] = "50~800RUB raz v mesyac"

\* What each option readout shows for an area.
OptionReadout(id, area) ==
    CASE id = "price-single" -> formatPrice(Num(getPrice(area, "single")))
      [] id = "price-weekly" -> formatPrice(Num(getPrice(area, "weekly")))
      [] id = "monthly-weekly" ->
            "(" \o formatPrice(Num(4 * getPrice(area, "weekly"))) \o " raz v mesyac)"
      [] id = "saving-weekly" ->
            "$ Ekonomiya " \o formatPrice(Num(getSavings(area, "weekly")))
                \o " na kazhdoy"

\* C7: the option readouts are driven by the slider only.  Once the calculator
\* listens, every readout the page holds shows the single price, the weekly
\* price, 4 * the weekly price and the weekly saving of the slider's area,
\* whichever radio is checked; and a radio change event leaves all four
\* readouts unchanged.
C7_OptionReadoutsFollowSlider ==
    /\ [](calcPhase = "listening" =>
            \A id \in OptionIds \cap markup :
                display[id] = OptionReadout(id, parseInt(sliderValue)))
    /\ [][checkedFrequency' # checkedFrequency =>
            \A id \in OptionIds : display'[id] = display[id]]_vars

C7_Witness ==
    /\ calcPhase = "listening"
    /\ checkedFrequency = "single"
    /\ sliderValue = <<"1", "5", "1">>
    /\ display["price-single"] = "21~900RUB"
    /\ display["price-weekly"] = "18~600RUB"
    /\ display["monthly-weekly"] = "(74~400RUB raz v mesyac)"
    /\ display["saving-weekly"] = "$ Ekonomiya 3~300RUB na kazhdoy"

-----------------------------------------------------------------------------
(* Properties of the modal and the mobile menu, checked under SpecPage and     *)
(* SpecPageFair.                                                               *)

\* C8: a submission with the name field or the phone field blank (empty) is
\* blocked: an alert is raised, the modal stays open or closed as it was, the
\* form is not replaced by the success message and neither timer is set.
C8_BlankSubmissionBlocked ==
    [][(SubmitForm /\ (nameField = "" \/ phoneField = "")) =>
          /\ alertOpen'
          /\ modalActive' = modalActive
          /\ formInDocument'
          /\ successShown' = successShown
          /\ closeTimers' = closeTimers
          /\ reloadTimers' = reloadTimers
          /\ closeTimers' = 0 /\ reloadTimers' = 0]_vars

C8_Witness ==
    /\ alertOpen
    /\ nameField = "Anna"
    /\ phoneField = ""
    /\ modalActive
    /\ formInDocument
    /\ successShown = 0
    /\ closeTimers = 0
    /\ reloadTimers = 0

\* C9: after a submission with both fields filled the success message replaces
\* the form, then the 2500 ms callback closes the modal, then the 300 ms
\* callback reloads the page, each once per page load: the reload never comes
\* before the timed close, no user event cancels a timer, and with timers
\* that fire both eventually happen.
C9_SuccessThenCloseThenReload ==
    /\ [][(SubmitForm /\ nameField # "" /\ phoneField # "") =>
            /\ ~formInDocument'
            /\ successShown' = successShown + 1
            /\ closeTimers' = closeTimers + 1
            /\ reloadTimers' = 0 /\ closeFired' = 0 /\ reloadFired' = 0]_vars
    /\ [](successShown <= 1 /\ closeFired <= 1 /\ reloadFired <= 1)
    /\ [](closeFired >= 1 => (successShown >= 1 /\ ~formInDocument))
    /\ []((reloadFired >= 1 \/ reloadTimers >= 1) => closeFired >= 1)
    /\ [][closeFired' > closeFired => ~modalActive']_vars
    /\ [][closeTimers' < closeTimers => closeFired' = closeFired + 1]_vars
    /\ [][reloadTimers' < reloadTimers => reloadFired' = reloadFired + 1]_vars
    /\ (successShown = 1) ~> (closeFired = 1)
    /\ (successShown = 1) ~> (reloadFired = 1)

C9_Witness ==
    /\ successShown = 1
    /\ ~formInDocument
    /\ closeFired = 1
    /\ reloadFired = 1
    /\ closeTimers = 0
    /\ reloadTimers = 0

\* C10: the modal locks page scroll while open: in every reachable state, if
\* the modal has its active class then the body overflow is 'hidden'.
C10_ModalLocksScroll == modalActive => bodyOverflow = "hidden"

\* C11: while the navigation panel carries its active class the body's overflow
\* is "hidden", whatever the modal's handlers and timers did in between.
C11_MenuLocksScroll == navActive => bodyOverflow = "hidden"

\* C12: the navigation panel and the hamburger button carry their active class
\* together, and a click on a navigation link leaves both without it.
C12_MenuClassesInStep ==
    /\ [](navActive = menuBtnActive)
    /\ [][NavLinkClick => ~navActive' /\ ~menuBtnActive']_vars

\* The menu is open: both classes are set.
C12_Witness == navActive /\ menuBtnActive /\ bodyOverflow = "hidden"

\* C20: the body's overflow is "hidden" only while the modal or the navigation
\* panel carries its active class.
C20_LockedOnlyWhileOpen == bodyOverflow = "hidden" => modalActive \/ navActive

\* The timed close has run and the menu, opened meanwhile, still locks the page.
C20_Witness ==
    closeFired > 0 /\ navActive /\ ~modalActive /\ bodyOverflow = "hidden"

\* The decimal digits of n below one million, the thousands set off by the
\* locale's separator and the last group written with all three digits.
C19_Grouped(n) ==
    IF n < 1000 THEN NumberToString(n)
    ELSE NumberToString(n \div 1000) \o "~"
            \o (IF n % 1000 < 10 THEN "00" ELSE IF n % 1000 < 100 THEN "0" ELSE "")
            \o NumberToString(n % 1000)

\* C19: formatPrice(0) and formatPrice(null) return the "on request" label; a
\* positive price comes back as its digits grouped in thousands with the
\* currency sign, never as the label; formatPrice(9900) is "9 900" and the sign.
C19_FormatPriceFallback ==
    /\ formatPrice(Num(9900)) = "9~900RUB"
    /\ call.fn = "formatPrice" =>
          LET price == call.args[1]
          IN  IF price = Null \/ price.v = 0
              THEN call.ret = "Po zaprosu"
              ELSE /\ call.ret = C19_Grouped(price.v) \o "RUB"
                   /\ call.ret # "Po zaprosu"

\* formatPrice has returned for a price with a thousands group whose last group
\* has leading zeros.
C19_Witness ==
    /\ call.fn = "formatPrice"
    /\ call.args[1] # Null
    /\ call.args[1].v >= 1000
    /\ call.args[1].v % 1000 < 100

-----------------------------------------------------------------------------
(* Properties of Calculator.init, checked under SpecCalc. *)

\* The calculator's part of the page as the markup gives it.
C16_Untouched ==
    /\ display = [id \in PrimaryIds \cup OptionIds |-> MarkupText]
    /\ sliderBackground = [num |-> 0, den |-> 0]

\* C16: on a page without #area-slider Calculator.init returns at once: no
\* listener is registered and no element is written, neither by init nor by a
\* later change of the radios, also when radios and readouts are on the page.
C16_NoSliderNoCalculator ==
    "area-slider" \notin markup =>
        /\ calcPhase \in {"loading", "idle"}
        /\ C16_Untouched

\* init has returned on a page with the readouts and without the slider, the
\* weekly radio checked.
C16_Witness ==
    /\ "area-slider" \notin markup
    /\ OptionIds \subseteq markup
    /\ calcPhase = "idle"
    /\ checkedFrequency = "weekly"

\* The handlers' view of the page with every output as the markup gives it.
C17_Unrendered ==
    [CalcState EXCEPT !.background = [num |-> 0, den |-> 0],
                      !.text = [id \in PrimaryIds \cup OptionIds |-> MarkupText]]

\* C17: what init renders is what one input event of the slider renders; an
\* input event with unchanged inputs changes nothing; and the two listeners of
\* the slider give the same result in either order.
C17_InitIsOneSliderInput ==
    calcPhase = "listening" =>
        /\ updateOptionPrices(update(C17_Unrendered)) = CalcState
        /\ updateOptionPrices(update(CalcState)) = CalcState
        /\ update(updateOptionPrices(CalcState)) = updateOptionPrices(update(CalcState))
        /\ update(updateOptionPrices(C17_Unrendered))
              = updateOptionPrices(update(C17_Unrendered))

\* The calculator listens, with the weekly radio checked and the slider moved.
C17_Witness ==
    /\ calcPhase = "listening"
    /\ OptionIds \subseteq markup
    /\ checkedFrequency = "weekly"
    /\ parseInt(sliderValue) > SliderMin
    /\ display["price-single"] # display["result-price"]

-----------------------------------------------------------------------------
(* Properties of Accordion, checked under SpecAccordion. *)

\* The items in the same .accordion as item i.
C13_Siblings(i) == {j \in DOMAIN items : items[j].group = items[i].group} \ {i}

\* C13: from the page as init leaves it (the first item open), after any header
\* clicks every accordion group has at most one active item; and a click on the
\* header of a closed item of a group leaves that item open, with its content's
\* max-height set, and its siblings closed with their max-height cleared.
C13_AccordionExclusive ==
    /\ \A g \in Groups :
          Cardinality({i \in itemActive : items[i].group = g}) <= 1
    /\ \A i \in itemHandlers :
          (i \notin itemActive /\ items[i].group # NoGroup) =>
              LET after == headerClick(AccordionDom, i)
              IN  /\ i \in after.active
                  /\ after.maxHeight[i] = ScrollHeightPx(i)
                  /\ \A j \in C13_Siblings(i) :
                        j \notin after.active /\ after.maxHeight[j] = ""

\* The second item is open after a click on its header, which closed the first
\* item of the page, a sibling in the same group.
C13_Witness ==
    /\ mainReady
    /\ items[1].group # NoGroup
    /\ items[2].group = items[1].group
    /\ 2 \in itemActive
    /\ 1 \notin itemActive
    /\ maxHeight[1] = ""

\* C14: a click on the header of any item with a header and a content, in an
\* .accordion or not, toggles it: a closed item becomes active with max-height
\* its content's scroll height, an open item inactive with max-height cleared.
C14_ClickToggles ==
    \A i \in itemHandlers :
        LET after == headerClick(AccordionDom, i)
        IN  IF i \in itemActive
            THEN i \notin after.active /\ after.maxHeight[i] = ""
            ELSE i \in after.active /\ after.maxHeight[i] = ScrollHeightPx(i)

-----------------------------------------------------------------------------
(* Properties of Animations, checked under SpecFade. *)

\* C18: an element gets the class visible only in a run of the callback that
\* reports it intersecting, and every element so reported gets it; it is
\* unobserved in the same run, so no later entry names it; and the class is
\* never removed.
C18_FadeInOneShot ==
    /\ [](visible \cap observed = {})
    /\ [](\A k \in DOMAIN queued : queued[k].target \in observed)
    /\ [][visible \subseteq visible']_vars
    /\ [][\A el \in visible' \ visible :
            /\ queued' = <<>>
            /\ \E k \in DOMAIN queued :
                  queued[k].target = el /\ queued[k].isIntersecting]_vars
    /\ [][ObserverCallback =>
            \A k \in DOMAIN queued :
                queued[k].isIntersecting => queued[k].target \in visible']_vars

\* One element is visible and no longer observed; another was reported out of
\* view, is still observed and not visible.
C18_Witness ==
    /\ queued = <<>>
    /\ \E el \in visible : el \notin observed /\ reported[el] = "in"
    /\ \E el \in observed : el \notin visible /\ reported[el] = "out"

-----------------------------------------------------------------------------
(* Properties of the page script's inits, checked under SpecMarkup. *)

\* C15: every module of the page script is a silent no-op where its markup is
\* missing: the DOMContentLoaded handler throws nothing, no listener is
\* registered for a missing element, and the missing module's part of the page
\* is as the markup gave it.
C15_SilentNoOp ==
    mainReady =>
        /\ initError = "none"
        /\ "header" \notin pageMarkup => "scroll" \notin listeners /\ ~headerScrolled
        /\ "modal" \notin pageMarkup =>
              listeners \cap {"open-trigger", "close-trigger", "backdrop",
                              "keydown", "submit"} = {}
        /\ "lead-form" \notin pageMarkup => "submit" \notin listeners
        /\ ("menu-btn" \notin pageMarkup \/ "nav" \notin pageMarkup) =>
              listeners \cap {"menu-btn", "nav-link"} = {}
        /\ fadeElements = {} => observed = {} /\ visible = {}
        /\ items = <<>> => itemActive = {} /\ itemHandlers = {}
        /\ \A i \in DOMAIN items :
              ~(items[i].header /\ items[i].content) => i \notin itemHandlers


====
